---- MODULE Spec2Model ----
(***************************************************************************)
(* Trench-Run: the simulation engine of src/game/main.js (the final        *)
(* iteration, lines 1095-2282): input handlers, game object, update, and   *)
(* the frame loop.                                                         *)
(*                                                                         *)
(* Numbers.  The program computes with IEEE doubles; the model computes    *)
(* with integers on fixed grids, every product rounded toward zero:        *)
(*   time      in ticks of 1/TimeScale second (dt = 0.033 s is 99 ticks,   *)
(*             1/60 s is 50 ticks);                                        *)
(*   position  x, y, z, protrude, thickness in 1/PosScale world unit, so   *)
(*             that speed * dt is exact for every speed the code uses;     *)
(*   velocity  of ship and enemies (world units per 1/60 s) in 1/VelScale; *)
(*   laser lateral velocity (world units per second) in 1/100;             *)
(*   an rng() value r in [0,1) by the high 16 bits of the 32-bit state,    *)
(*             r ~ hi / 65536; the state itself is exact (two 16-bit       *)
(*             halves, since 32-bit products do not fit TLC's             *)
(*             integers).                                                  *)
(***************************************************************************)
EXTENDS Integers, Sequences, FiniteSets, TLC

VARIABLES
    game,   \* the game object (src/game/main.js:1970-2097)
    keys,   \* the held-key set (src/game/main.js:1110)
    cam,    \* camera parameters written by render (src/game/main.js:1224-1227)
    ev      \* the last handler that ran and what it did (observation only):
            \* kind, key, elapsed and dt of the call; hit, atHit and reset as
            \* update reports them; idle = 1 once a frame ran during a pause

vars == <<game, keys, cam, ev>>

-----------------------------------------------------------------------------
(* Grids *)

TimeScale == 3000
PosScale == 300
VelScale == 10000

(* Bounds of the model *)

\* game.t (simulated play time, in ticks) stays within MaxT in Spec
MaxT == 100
\* game.t stays within MaxTRun in SpecRun
MaxTRun == 17100

\* play time of the untouched run (SpecIdle), in ticks: 300 frames of 1/60 s
MaxTIdle == 15000
\* in SpecRun the player's key events happen while game.t < RunKeyWindow
RunKeyWindow == 300
\* at most MaxHeld keys are held at once in Spec
MaxHeld == 1
MaxTFight == 9000
FightKeyWindow == 100
MaxTRounds == 9500
MaxRound == 10

-----------------------------------------------------------------------------
(* Helpers *)

Abs(a) == IF a < 0 THEN -a ELSE a

Max(a, b) == IF a >= b THEN a ELSE b

Min(a, b) == IF a <= b THEN a ELSE b

\* a / b rounded toward zero (b > 0): the grid's rounding of a real quotient
Trunc(a, b) == IF a >= 0 THEN a \div b ELSE -((-a) \div b)

clamp(v, lo, hi) == Max(lo, Min(hi, v))

\* k * r for an rng value r = hi / 65536 and k >= 0, floored: (k * hi) \div 65536
\* computed in two halves to stay within 31 bits
Scale(hi, k) == ((k * (hi \div 256)) + ((k * (hi % 256)) \div 256)) \div 256

\* (r * 2 - 1) * a
Spread(hi, a) == Scale(hi, 2 * a) - a

(* makeRng: a 32-bit linear congruential generator; s = hi * 65536 + lo.  *)
(* 1664525 = 25 * 65536 + 26125, 1013904223 = 15470 * 65536 + 62303.      *)

makeRng(seed) == [hi |-> (seed \div 65536) % 65536, lo |-> seed % 65536]

RngNextNoCarry(s) ==
    [lo |-> (26125 * s.lo + 62303) % 65536,
     hi |-> (26125 * s.hi + 25 * s.lo + 15470) % 65536]

\* s := (1664525 * s + 1013904223) >>> 0
RngNext(s) ==
    LET low == 26125 * s.lo + 62303
    IN  [lo |-> low % 65536,
         hi |-> (26125 * s.hi + 25 * s.lo + 15470 + (low \div 65536)) % 65536]

\* the value returned by the call that left the stream in state s: s / 2^32
RngVal(s) == s.hi

RECURSIVE RngAdvance(_, _)
\* the stream after n further draws
RngAdvance(s, n) == IF n = 0 THEN s ELSE RngAdvance(RngNext(s), n - 1)

-----------------------------------------------------------------------------
(* Tuning (TUNE), on the model's grids *)

TUNE ==
    [xAccel |-> 9 * VelScale,                \* 9.0
     yAccel |-> 75 * (VelScale \div 10),     \* 7.5
     dampPct |-> 86,                         \* damp 0.86
     trenchNearHalfW |-> 320,                \* world units
     trenchFarHalfW |-> 120,
     trenchHalfH |-> 140 * PosScale,
     sitLowerY |-> -55 * PosScale,
     padX |-> 92 * PosScale,
     padY |-> 46 * PosScale,
     horizonBase |-> 105,
     fov |-> 580,
     pitchEffect |-> 40,
     farZ |-> 3000,                          \* world units
     laserCooldown |-> 540,                  \* 0.18 s
     missileCooldown |-> 2400,               \* 0.80 s
     aimTargetZ |-> 1500,                    \* world units
     hitRadius |-> 80 * PosScale,
     enemyZWindow |-> 90 * PosScale,
     enemySpawnMin |-> 4800,                 \* 1.6 s
     enemySpawnMax |-> 8700,                 \* 2.9 s
     enemyShotCooldownMin |-> 4500,          \* 1.5 s
     enemyShotCooldownMax |-> 7800]          \* 2.6 s

MaxStepTenfold == 10 * 99

\* the largest step the loop passes to update: 0.033 s
MaxStep == 99

\* a world-unit depth offset from the ship, on the position grid
ZAt(g, offset) == (g.shipZ + offset) * PosScale

trenchHalfWAtUnclamped(g, z) ==
    g.trenchNearHalfW * PosScale
      + Trunc((g.trenchFarHalfW - g.trenchNearHalfW) * (z - g.shipZ * PosScale),
              TUNE.farZ - g.shipZ)

\* trenchHalfWAt(z): lerp(near, far, clamp((z - shipZ) / (farZ - shipZ), 0, 1))
trenchHalfWAt(g, z) ==
    LET span == TUNE.farZ - g.shipZ
        zc == clamp(z - g.shipZ * PosScale, 0, span * PosScale)
    IN  g.trenchNearHalfW * PosScale
          + Trunc((g.trenchFarHalfW - g.trenchNearHalfW) * zc, span)

-----------------------------------------------------------------------------
(* Entities *)

\* new Enemy(x, y, z, rng): three draws (vx, vy, fireCd); s1, s2, s3 are the
\* stream after each of them
EnemyWith(x, y, z, s1, s2, s3) ==
    [x |-> x, y |-> y, z |-> z,
     vx |-> Spread(RngVal(s1), 45 * (VelScale \div 100)),
     vy |-> Spread(RngVal(s2), 30 * (VelScale \div 100)),
     hp |-> 2,
     alive |-> TRUE,
     fireCd |-> TUNE.enemyShotCooldownMin
                  + Scale(RngVal(s3),
                          TUNE.enemyShotCooldownMax - TUNE.enemyShotCooldownMin)]

\* s is the stream before the constructor runs
Enemy(x, y, z, s) == EnemyWith(x, y, z, RngAdvance(s, 1), RngAdvance(s, 2), RngAdvance(s, 3))

Pipe(side, y, z, protrude, thickness) ==
    [side |-> side, y |-> y, z |-> z, protrude |-> protrude,
     thickness |-> thickness, alive |-> TRUE]

\* new LaserShot(x, y, z, owner); a player laser converges on the aim point
LaserShot(g, x, y, z, owner) ==
    IF owner = "player"
    THEN LET speed == 980
             dz == Max(1, (ZAt(g, TUNE.aimTargetZ) - z) \div PosScale)
         IN  [kind |-> "laser", owner |-> owner, x |-> x, y |-> y, z |-> z,
              alive |-> TRUE, age |-> 0, speed |-> speed,
              vx |-> Trunc((g.ship.x - x) * speed, dz * 3),
              vy |-> Trunc((g.ship.y - y) * speed, dz * 3),
              trail |-> <<>>]
    ELSE [kind |-> "laser", owner |-> owner, x |-> x, y |-> y, z |-> z,
          alive |-> TRUE, age |-> 0, speed |-> 720, vx |-> 0, vy |-> 0,
          trail |-> <<>>]

\* new MissileShot(x, y, z); a missile has no lateral velocity and no age:
\* the fields are kept at 0 so that all shots have one shape
MissileShot(x, y, z) ==
    [kind |-> "missile", owner |-> "player", x |-> x, y |-> y, z |-> z,
     alive |-> TRUE, age |-> 0, speed |-> 720, vx |-> 0, vy |-> 0,
     trail |-> <<>>]

trailMax == 14

-----------------------------------------------------------------------------
(* The game object *)

GameInit ==
    [state |-> "title",
     rng |-> makeRng(1337),
     t |-> 0,
     shipZ |-> 160,
     trenchNearHalfW |-> TUNE.trenchNearHalfW,
     trenchFarHalfW |-> TUNE.trenchFarHalfW,
     scrollSpeed |-> 600,
     ship |-> [x |-> 0, y |-> TUNE.sitLowerY, vx |-> 0, vy |-> 0],
     shipHitR |-> 42 * PosScale,
     round |-> 1,
     score |-> 0,
     lives |-> 3,
     missiles |-> 3,
     laserCd |-> 0,
     missileCd |-> 0,
     laserSide |-> -1,
     enemies |-> <<>>,
     pipes |-> <<>>,
     playerShots |-> <<>>,
     enemyShots |-> <<>>,
     enemyTimer |-> 2700,
     pipeTimer |-> 4200]

togglePauseLossy(g) ==
    IF g.state = "playing" THEN [g EXCEPT !.state = "paused"]
    ELSE IF g.state = "paused"
         THEN [g EXCEPT !.state = "playing", !.enemyTimer = 3000, !.pipeTimer = 4500]
    ELSE g

togglePause(g) ==
    IF g.state = "playing" THEN [g EXCEPT !.state = "paused"]
    ELSE IF g.state = "paused" THEN [g EXCEPT !.state = "playing"]
    ELSE g

spawnEnemyWithNear(g, prefill, s1, s2, s3) ==
    [g EXCEPT !.enemies =
                Append(@, Enemy(Spread(RngVal(s1), (g.trenchNearHalfW - 95) * PosScale),
                                Spread(RngVal(s2), TUNE.trenchHalfH \div 2) - 10 * PosScale,
                                ZAt(g, 0) + Scale(RngVal(s3), 900 * PosScale),
                                s3)),
              !.rng = RngAdvance(s3, 3)]

\* game.spawnEnemy(prefill) with the stream after its draws of x, y and z
spawnEnemyWith(g, prefill, s1, s2, s3) ==
    [g EXCEPT !.enemies =
                Append(@, Enemy(Spread(RngVal(s1), (g.trenchNearHalfW - 95) * PosScale),
                                Spread(RngVal(s2), TUNE.trenchHalfH \div 2) - 10 * PosScale,
                                IF prefill
                                THEN ZAt(g, 900) + Scale(RngVal(s3), 900 * PosScale)
                                ELSE ZAt(g, 1600) + Scale(RngVal(s3), 950 * PosScale),
                                s3)),
              !.rng = RngAdvance(s3, 3)]

\* game.spawnEnemy(prefill): six draws (x, y, z, then the constructor's three)
spawnEnemy(g, prefill) ==
    spawnEnemyWith(g, prefill, RngAdvance(g.rng, 1), RngAdvance(g.rng, 2), RngAdvance(g.rng, 3))

\* game.spawnPipe() with the stream after each of its draws
spawnPipeWith(g, s1, s2, s3, s4, s5) ==
    [g EXCEPT !.pipes =
                Append(@, Pipe(IF RngVal(s1) < 32768 THEN -1 ELSE 1,
                               Spread(RngVal(s3), (TUNE.trenchHalfH * 55) \div 100),
                               ZAt(g, 1500) + Scale(RngVal(s2), 1100 * PosScale),
                               60 * PosScale + Scale(RngVal(s4), 120 * PosScale),
                               10 * PosScale + Scale(RngVal(s5), 16 * PosScale))),
              !.rng = s5]

\* game.spawnPipe(): five draws (side, z, y, protrude, thickness)
spawnPipe(g) ==
    spawnPipeWith(g, RngAdvance(g.rng, 1), RngAdvance(g.rng, 2), RngAdvance(g.rng, 3),
                  RngAdvance(g.rng, 4), RngAdvance(g.rng, 5))

RECURSIVE Prefill(_, _)
\* for (let i = 0; i < count; i++) this.spawnEnemy(true)
Prefill(g, count) == IF count = 0 THEN g ELSE Prefill(spawnEnemy(g, TRUE), count - 1)

\* the seed of a round's stream
RoundSeed(round) == 9000 + round * 101

PrefillCountUncapped(round) == 1 + round \div 2

\* resetRound, line 2045: the number of enemies a round starts with
PrefillCount(round) == 1 + Min(2, round \div 2)

\* resetRound, lines 2026-2043: ship to its default, a fresh stream for the
\* round, empty collections, timers and weapons at their start values
ClearRound(g) ==
    [g EXCEPT !.ship = [x |-> 0, y |-> TUNE.sitLowerY, vx |-> 0, vy |-> 0],
              !.rng = makeRng(RoundSeed(g.round)),
              !.enemies = <<>>,
              !.pipes = <<>>,
              !.playerShots = <<>>,
              !.enemyShots = <<>>,
              !.enemyTimer = 3000,
              !.pipeTimer = 4500,
              !.laserCd = 0,
              !.missileCd = 0,
              !.laserSide = -1]

resetRoundKeepStream(g) ==
    Prefill([ClearRound(g) EXCEPT !.rng = g.rng], PrefillCount(g.round))

resetRoundKeepPipes(g) ==
    Prefill([ClearRound(g) EXCEPT !.pipes = g.pipes], PrefillCount(g.round))

resetRoundKeepShots(g) ==
    Prefill([ClearRound(g) EXCEPT !.enemyShots = g.enemyShots], PrefillCount(g.round))

\* game.resetRound(): clear, then pre-seed the round's enemies
resetRound(g) == Prefill(ClearRound(g), PrefillCount(g.round))

newGameKeepScore(g) ==
    [resetRound([g EXCEPT !.round = 1,
                          !.lives = 3,
                          !.missiles = 3,
                          !.scrollSpeed = 600,
                          !.trenchNearHalfW = TUNE.trenchNearHalfW,
                          !.trenchFarHalfW = TUNE.trenchFarHalfW])
       EXCEPT !.state = "playing"]

\* game.newGame(): progression back to its defaults, then a round reset
newGame(g) ==
    [resetRound([g EXCEPT !.round = 1,
                          !.score = 0,
                          !.lives = 3,
                          !.missiles = 3,
                          !.scrollSpeed = 600,
                          !.trenchNearHalfW = TUNE.trenchNearHalfW,
                          !.trenchFarHalfW = TUNE.trenchFarHalfW])
       EXCEPT !.state = "playing"]

loseLifeLate(g) ==
    LET g1 == [g EXCEPT !.lives = @ - 1]
    IN  IF g1.lives < 0 THEN [g1 EXCEPT !.state = "gameover"]
        ELSE resetRound(g1)

loseLifeAlwaysReset(g) ==
    LET g1 == [g EXCEPT !.lives = @ - 1]
    IN  IF g1.lives <= 0 THEN resetRound([g1 EXCEPT !.state = "gameover"])
        ELSE resetRound(g1)

loseLife(g) ==
    LET g1 == [g EXCEPT !.lives = @ - 1]
    IN  IF g1.lives <= 0 THEN [g1 EXCEPT !.state = "gameover"]
        ELSE resetRound(g1)

-----------------------------------------------------------------------------
(* Weapons *)

\* game.fireLaser(): one shot from alternating sides
fireLaser(g) ==
    IF g.laserCd > 0 THEN g
    ELSE LET side == -g.laserSide
             gunX == g.ship.x + side * 78 * PosScale
             gunY == g.ship.y - 6 * PosScale
             z0 == ZAt(g, 70)
         IN  [g EXCEPT !.laserCd = TUNE.laserCooldown,
                       !.laserSide = side,
                       !.playerShots = Append(@, LaserShot(g, gunX, gunY, z0, "player"))]

fireMissileNoStockCheck(g) ==
    IF g.missileCd > 0 THEN g
    ELSE [g EXCEPT !.missiles = @ - 1,
                   !.missileCd = TUNE.missileCooldown,
                   !.playerShots = Append(@, MissileShot(g.ship.x, g.ship.y, ZAt(g, 85)))]

\* game.fireMissile()
fireMissile(g) ==
    IF g.missileCd > 0 THEN g
    ELSE IF g.missiles <= 0 THEN g
    ELSE [g EXCEPT !.missiles = @ - 1,
                   !.missileCd = TUNE.missileCooldown,
                   !.playerShots = Append(@, MissileShot(g.ship.x, g.ship.y, ZAt(g, 85)))]

-----------------------------------------------------------------------------
(* update(dt), in the order of the source *)

down(ks, k) == k \in ks

ShipStepNoClamp(g, ks, dt) ==
    LET ax == (IF down(ks, "d") THEN 1 ELSE 0) - (IF down(ks, "a") THEN 1 ELSE 0)
        ay == (IF down(ks, "s") THEN 1 ELSE 0) - (IF down(ks, "w") THEN 1 ELSE 0)
        vx == Trunc((g.ship.vx + ax * TUNE.xAccel) * TUNE.dampPct, 100)
        vy == Trunc((g.ship.vy + ay * TUNE.yAccel) * TUNE.dampPct, 100)
    IN  [g EXCEPT !.t = @ + dt,
                  !.laserCd = Max(0, @ - dt),
                  !.missileCd = Max(0, @ - dt),
                  !.ship = [x |-> g.ship.x + Trunc(vx * dt * 6, VelScale),
                            y |-> g.ship.y + Trunc(vy * dt * 6, VelScale),
                            vx |-> vx, vy |-> vy]]

\* lines 2105-2128: clock, cooldowns, ship integration and clamp
ShipStep(g, ks, dt) ==
    LET left == down(ks, "a") \/ down(ks, "arrowleft")
        right == down(ks, "d") \/ down(ks, "arrowright")
        up == down(ks, "w") \/ down(ks, "arrowup")
        downKey == down(ks, "s") \/ down(ks, "arrowdown")
        ax == (IF right THEN 1 ELSE 0) - (IF left THEN 1 ELSE 0)
        ay == (IF downKey THEN 1 ELSE 0) - (IF up THEN 1 ELSE 0)
        vx == Trunc((g.ship.vx + ax * TUNE.xAccel) * TUNE.dampPct, 100)
        vy == Trunc((g.ship.vy + ay * TUNE.yAccel) * TUNE.dampPct, 100)
        x == g.ship.x + Trunc(vx * dt * 6, VelScale)
        y == g.ship.y + Trunc(vy * dt * 6, VelScale)
        halfW == trenchHalfWAt(g, g.shipZ * PosScale)
    IN  [g EXCEPT !.t = @ + dt,
                  !.laserCd = Max(0, @ - dt),
                  !.missileCd = Max(0, @ - dt),
                  !.ship = [x |-> clamp(x, -halfW + TUNE.padX, halfW - TUNE.padX),
                            y |-> clamp(y, -TUNE.trenchHalfH + TUNE.padY,
                                        TUNE.trenchHalfH - TUNE.padY),
                            vx |-> vx, vy |-> vy]]

\* lines 2131-2135: fire controls; M is consumed from the held-key set
FireStep(g, ks) ==
    LET g1 == IF down(ks, " ") THEN fireLaser(g) ELSE g
    IN  IF down(ks, "m") THEN fireMissile(g1) ELSE g1

\* lines 2138-2147: one draw for enemyEvery (s1 is the stream after it), then
\* the enemy timer
EnemySpawner(g, dt, s1) ==
    IF g.enemyTimer - dt <= 0
    THEN spawnEnemy([g EXCEPT !.rng = s1,
                              !.enemyTimer =
                                  @ - dt + clamp(TUNE.enemySpawnMin
                                                   + Scale(RngVal(s1),
                                                           TUNE.enemySpawnMax - TUNE.enemySpawnMin)
                                                   - g.round * 60,
                                                 2850, 9600)],
                    FALSE)
    ELSE [g EXCEPT !.rng = s1, !.enemyTimer = @ - dt]

\* lines 2150-2155: the pipe timer; pipeRoll is Math.random() < TUNE.pipeChance
PipeSpawner(g, dt, pipeRoll) ==
    IF g.pipeTimer - dt <= 0
    THEN IF pipeRoll
         THEN spawnPipe([g EXCEPT !.pipeTimer = @ - dt + clamp(8700 - g.round * 150, 4500, 8700)])
         ELSE [g EXCEPT !.pipeTimer = @ - dt + clamp(8700 - g.round * 150, 4500, 8700)]
    ELSE [g EXCEPT !.pipeTimer = @ - dt]

\* lines 2137-2155: the spawners
SpawnStep(g, dt, pipeRoll) == PipeSpawner(EnemySpawner(g, dt, RngNext(g.rng)), dt, pipeRoll)

\* does this frame's spawner consult Math.random for a pipe?
PipeDue(g, dt) == g.pipeTimer - dt <= 0

\* Enemy.update, lines 1382-1391 and 1405: steering, motion, scroll, retirement
EnemyMove(g, e, dt) ==
    LET sx == clamp(Trunc((g.ship.x - e.x) * 8, 3), -2500, 2500)
        sy == clamp(Trunc((g.ship.y - e.y) * 7, 3), -2200, 2200)
        vx == clamp(e.vx + Trunc(sx * dt, TimeScale), -9000, 9000)
        vy == clamp(e.vy + Trunc(sy * dt, TimeScale), -7500, 7500)
        z == e.z - (g.scrollSpeed * dt) \div 10
    IN  [e EXCEPT !.vx = vx, !.vy = vy,
                  !.x = @ + Trunc(vx * dt * 6, VelScale),
                  !.y = @ + Trunc(vy * dt * 6, VelScale),
                  !.z = z,
                  !.fireCd = @ - dt]

\* the condition of line 1395, on the enemy as moved
FireDue(g, e) == e.fireCd <= 0 /\ e.z < ZAt(g, 1100) /\ e.z > ZAt(g, 260)

\* Enemy.update, lines 1394-1405, for the enemy e1 as moved: the fire decision
\* (fire tells Math.random() < enemyShotsChance) and the retirement test
EnemyFire(g, e1, i, fire) ==
    IF FireDue(g, e1)
    THEN [g EXCEPT !.rng = RngNext(g.rng),
                   !.enemies[i] =
                       [e1 EXCEPT !.fireCd =
                                    TUNE.enemyShotCooldownMin
                                      + Scale(RngVal(RngNext(g.rng)),
                                              TUNE.enemyShotCooldownMax
                                                - TUNE.enemyShotCooldownMin),
                                  !.alive = IF e1.z < ZAt(g, -160) THEN FALSE ELSE @],
                   !.enemyShots = IF fire
                                  THEN Append(@, LaserShot(g, e1.x, e1.y, e1.z, "enemy"))
                                  ELSE @]
    ELSE [g EXCEPT !.enemies[i] =
                       [e1 EXCEPT !.alive = IF e1.z < ZAt(g, -160) THEN FALSE ELSE @]]

RECURSIVE UpdateEnemies(_, _, _, _)
\* for (const e of game.enemies) e.update(dt): in order, sharing game.rng;
\* firing is the set of enemies whose Math.random() < enemyShotsChance
UpdateEnemies(g, dt, firing, i) ==
    IF i > Len(g.enemies) THEN g
    ELSE UpdateEnemies(EnemyFire(g, EnemyMove(g, g.enemies[i], dt), i, i \in firing),
                       dt, firing, i + 1)

\* the enemies for which line 1400 consults Math.random in this frame
FireReady(g, dt) == {i \in 1..Len(g.enemies) : FireDue(g, EnemyMove(g, g.enemies[i], dt))}

\* Pipe.update
PipeUpdate(g, p, dt) ==
    LET z == p.z - (g.scrollSpeed * dt) \div 10
    IN  [p EXCEPT !.z = z, !.alive = IF z < ZAt(g, -280) THEN FALSE ELSE @]

\* LaserShot.update
LaserUpdate(g, s, dt) ==
    LET z1 == IF s.owner = "player" THEN s.z + (s.speed * dt) \div 10
              ELSE s.z - (s.speed * dt) \div 10
        z == z1 - (g.scrollSpeed * dt) \div 10
    IN  [s EXCEPT !.age = @ + dt,
                  !.x = IF s.owner = "player" THEN @ + Trunc(s.vx * dt, 1000) ELSE @,
                  !.y = IF s.owner = "player" THEN @ + Trunc(s.vy * dt, 1000) ELSE @,
                  !.z = z,
                  !.alive = IF z > (TUNE.farZ + 350) * PosScale \/ z < ZAt(g, -280)
                            THEN FALSE ELSE @]

MissileUpdateKeepAll(g, s, dt) ==
    [s EXCEPT !.trail = Append(@, [x |-> s.x, y |-> s.y, z |-> s.z]),
              !.z = @ + (s.speed * dt) \div 10 - (g.scrollSpeed * dt) \div 10,
              !.alive = IF s.z + (s.speed * dt) \div 10 - (g.scrollSpeed * dt) \div 10
                              > (TUNE.farZ + 350) * PosScale
                        THEN FALSE ELSE @]

\* MissileShot.update: the trail keeps the last trailMax positions
MissileUpdate(g, s, dt) ==
    LET pushed == Append(s.trail, [x |-> s.x, y |-> s.y, z |-> s.z])
        z == s.z + (s.speed * dt) \div 10 - (g.scrollSpeed * dt) \div 10
    IN  [s EXCEPT !.trail = IF Len(pushed) > trailMax THEN Tail(pushed) ELSE pushed,
                  !.z = z,
                  !.alive = IF z > (TUNE.farZ + 350) * PosScale THEN FALSE ELSE @]

ShotUpdate(g, s, dt) ==
    IF s.kind = "missile" THEN MissileUpdate(g, s, dt) ELSE LaserUpdate(g, s, dt)

Alive(seq) == SelectSeq(seq, LAMBDA e : e.alive)

\* lines 2159-2166: update pipes and shots, then drop every dead entity
OthersStep(g, dt) ==
    [g EXCEPT !.enemies = Alive(@),
              !.pipes = Alive([i \in 1..Len(g.pipes) |-> PipeUpdate(g, g.pipes[i], dt)]),
              !.playerShots =
                  Alive([i \in 1..Len(g.playerShots) |-> ShotUpdate(g, g.playerShots[i], dt)]),
              !.enemyShots =
                  Alive([i \in 1..Len(g.enemyShots) |-> ShotUpdate(g, g.enemyShots[i], dt)])]

\* lines 2157-2166: update every entity, then drop the dead ones
EntityStep(g, dt, firing) == OthersStep(UpdateEnemies(g, dt, firing, 1), dt)

-----------------------------------------------------------------------------
(* Collisions *)

\* Pipe.collidesWithShip()
collidesWithShip(g, p) ==
    IF Abs(p.z - g.shipZ * PosScale) > 95 * PosScale THEN FALSE
    ELSE LET halfW == trenchHalfWAt(g, p.z)
             wallX == p.side * halfW
             innerX == wallX - p.side * p.protrude
             pipeMinX == Min(wallX, innerX)
             pipeMaxX == Max(wallX, innerX)
             withinX == g.ship.x + g.shipHitR > pipeMinX /\ g.ship.x - g.shipHitR < pipeMaxX
             withinY == Abs(g.ship.y - p.y) < 45 * PosScale
         IN  withinX /\ withinY

\* dx * dx + dy * dy < r * r, without leaving 31 bits
Within(dx, dy, r) == Abs(dx) < r /\ Abs(dy) < r /\ dx * dx + dy * dy < r * r

\* lines 2169-2174: some pipe collides with the ship
PipeHit(g) == \E i \in 1..Len(g.pipes) : collidesWithShip(g, g.pipes[i])

\* lines 2177-2186: some enemy shot hits the ship; the radius is shipHitR * 0.95
EnemyShotHit(g) ==
    \E i \in 1..Len(g.enemyShots) :
        LET es == g.enemyShots[i]
        IN  /\ Abs(es.z - g.shipZ * PosScale) < 120 * PosScale
            /\ Within(es.x - g.ship.x, es.y - g.ship.y, (g.shipHitR * 95) \div 100)

hitDiesBelowZero(e, dmg) ==
    [e EXCEPT !.hp = e.hp - dmg, !.alive = IF e.hp - dmg < 0 THEN FALSE ELSE @]

\* Enemy.hit(dmg)
hit(e, dmg) ==
    LET hp == e.hp - dmg
    IN  [e EXCEPT !.hp = hp, !.alive = IF hp <= 0 THEN FALSE ELSE @]

\* lines 2191-2196: player shot i and enemy j are both alive, close in depth
\* and within the hit radius
HitCond(g, i, j) ==
    /\ g.playerShots[i].alive
    /\ g.enemies[j].alive
    /\ Abs(g.playerShots[i].z - g.enemies[j].z) < TUNE.enemyZWindow
    /\ Within(g.playerShots[i].x - g.enemies[j].x, g.playerShots[i].y - g.enemies[j].y,
              TUNE.hitRadius)

ApplyHitShotSurvives(g, i, j) ==
    [g EXCEPT !.enemies[j] = hit(@, IF g.playerShots[i].kind = "missile" THEN 2 ELSE 1),
              !.score = @ + (IF g.playerShots[i].kind = "missile" THEN 220 ELSE 120)]

\* lines 2197-2199: the shot dies, the enemy takes the damage, the score grows
ApplyHit(g, i, j) ==
    [g EXCEPT !.playerShots[i].alive = FALSE,
              !.enemies[j] = hit(@, IF g.playerShots[i].kind = "missile" THEN 2 ELSE 1),
              !.score = @ + (IF g.playerShots[i].kind = "missile" THEN 220 ELSE 120)]

RECURSIVE ShotsVsEnemies(_, _, _)
\* lines 2189-2202: for each player shot i, for each enemy j, in order
ShotsVsEnemies(g, i, j) ==
    IF i > Len(g.playerShots) THEN g
    ELSE IF j > Len(g.enemies) THEN ShotsVsEnemies(g, i + 1, 1)
    ELSE IF HitCond(g, i, j) THEN ShotsVsEnemies(ApplyHit(g, i, j), i, j + 1)
    ELSE ShotsVsEnemies(g, i, j + 1)

\* what one pass through lines 2197-2199 did: g is the game before it, h after
HitEntry(g, h, i, j) ==
    [shot |-> i, enemy |-> j, kind |-> g.playerShots[i].kind,
     shotAlive |-> g.playerShots[i].alive, shotAliveAfter |-> h.playerShots[i].alive,
     hp |-> g.enemies[j].hp, enemyAlive |-> g.enemies[j].alive,
     hpAfter |-> h.enemies[j].hp, enemyAliveAfter |-> h.enemies[j].alive,
     gain |-> h.score - g.score]

RECURSIVE HitLog(_, _, _)
\* the passes through lines 2197-2199 that the loops of lines 2189-2202 make,
\* in order
HitLog(g, i, j) ==
    IF i > Len(g.playerShots) THEN <<>>
    ELSE IF j > Len(g.enemies) THEN HitLog(g, i + 1, 1)
    ELSE IF HitCond(g, i, j)
         THEN <<HitEntry(g, ApplyHit(g, i, j), i, j)>> \o HitLog(ApplyHit(g, i, j), i, j + 1)
    ELSE HitLog(g, i, j + 1)

\* line 2205: game.score += Math.floor((8 + game.round * 2) * dt * 10)
SurvivalScore(g, dt) == [g EXCEPT !.score = @ + ((8 + g.round * 2) * dt) \div 300]

nextRoundUncapped(g) ==
    resetRound([g EXCEPT !.round = @ + 1,
                         !.scrollSpeed = @ + 40,
                         !.missiles = Min(6, @ + 1)])

\* lines 2210-2213: the temporary next-round key
nextRound(g) ==
    resetRound([g EXCEPT !.round = @ + 1,
                         !.scrollSpeed = Min(920, @ + 40),
                         !.missiles = Min(6, @ + 1)])

-----------------------------------------------------------------------------
(* update(dt) and render() *)

\* the value of the observation fields when no game snapshot applies
NoGame == [state |-> "none"]

\* the game as the entity loop of line 2158 finds it (lines 2105-2155 done)
BeforeEntities(g, ks, dt, pipeRoll) == SpawnStep(FireStep(ShipStep(g, ks, dt), ks), dt, pipeRoll)

\* the result of update when it returns at once
Unchanged(g, ks) ==
    [game |-> g, keys |-> ks, hit |-> "none", atHit |-> NoGame, reset |-> FALSE,
     hits |-> <<>>]

\* lines 2204-2214, for the game g as the collisions left it; hits is what the
\* player's shots did in this frame
Survive(g, ks, dt, hits) ==
    IF down(ks, "n")
    THEN [game |-> nextRound(SurvivalScore(g, dt)), keys |-> ks \ {"n"},
          hit |-> "none", atHit |-> NoGame, reset |-> TRUE, hits |-> hits]
    ELSE [game |-> SurvivalScore(g, dt), keys |-> ks,
          hit |-> "none", atHit |-> NoGame, reset |-> FALSE, hits |-> hits]

CollideNoShortCircuit(g4, ks, dt) ==
    IF PipeHit(g4)
    THEN [Survive(loseLife(g4), ks, dt, <<>>) EXCEPT !.hit = "pipe", !.atHit = g4]
    ELSE IF EnemyShotHit(g4)
    THEN [Survive(loseLife(g4), ks, dt, <<>>) EXCEPT !.hit = "shot", !.atHit = g4]
    ELSE Survive(ShotsVsEnemies(g4, 1, 1), ks, dt, HitLog(g4, 1, 1))

\* lines 2168-2214, for the game g4 as the entity updates left it.  hit names
\* the collision that cost a life in this frame, atHit is the game at that
\* moment, reset tells whether resetRound ran, and hits lists the player
\* shots' hits
Collide(g4, ks, dt) ==
    IF PipeHit(g4)
    THEN [game |-> loseLife(g4), keys |-> ks, hit |-> "pipe", atHit |-> g4,
          reset |-> g4.lives > 1, hits |-> <<>>]
    ELSE IF EnemyShotHit(g4)
    THEN [game |-> loseLife(g4), keys |-> ks, hit |-> "shot", atHit |-> g4,
          reset |-> g4.lives > 1, hits |-> <<>>]
    ELSE Survive(ShotsVsEnemies(g4, 1, 1), ks, dt, HitLog(g4, 1, 1))

updatePlayingKeepsM(g, ks, dt, pipeRoll, firing) ==
    Collide(EntityStep(BeforeEntities(g, ks, dt, pipeRoll), dt, firing), ks, dt)

\* lines 2105-2214: update(dt) past the state gate; M is consumed at line 2133
updatePlaying(g, ks, dt, pipeRoll, firing) ==
    Collide(EntityStep(BeforeEntities(g, ks, dt, pipeRoll), dt, firing), ks \ {"m"}, dt)

updateGatePausedOnly(g, ks, dt, pipeRoll, firing) ==
    IF g.state = "paused" THEN Unchanged(g, ks)
    ELSE updatePlaying(g, ks, dt, pipeRoll, firing)

\* update(dt): the new game object and held-key set
update(g, ks, dt, pipeRoll, firing) ==
    IF g.state # "playing" THEN Unchanged(g, ks)
    ELSE updatePlaying(g, ks, dt, pipeRoll, firing)

\* lines 2237-2241: the drawables in the order they are pushed
DrawList(g) ==
    [i \in 1..Len(g.pipes) |-> [cat |-> "pipe", i |-> i, z |-> g.pipes[i].z]]
      \o [i \in 1..Len(g.enemies) |-> [cat |-> "enemy", i |-> i, z |-> g.enemies[i].z]]
      \o [i \in 1..Len(g.playerShots) |->
            [cat |-> "playerShot", i |-> i, z |-> g.playerShots[i].z]]
      \o [i \in 1..Len(g.enemyShots) |->
            [cat |-> "enemyShot", i |-> i, z |-> g.enemyShots[i].z]]

RECURSIVE InsertFar(_, _)
\* d put into a far-to-near sequence, behind the elements as far or farther
InsertFar(sorted, d) ==
    IF sorted = <<>> THEN <<d>>
    ELSE IF Head(sorted).z >= d.z THEN <<Head(sorted)>> \o InsertFar(Tail(sorted), d)
    ELSE <<d>> \o sorted

RECURSIVE SortFarNear(_, _)
\* Array.prototype.sort with (a, b) => b.z - a.z: a stable sort, depth descending
SortFarNear(sorted, rest) ==
    IF rest = <<>> THEN sorted
    ELSE SortFarNear(InsertFar(sorted, Head(rest)), Tail(rest))

drawablesUnsorted(g) == DrawList(g)

\* lines 2237-2244: the sequence in which render() draws the entities
drawables(g) == SortFarNear(<<>>, DrawList(g))

\* the scale s of a projection is kept in thousandths
SScale == 1000

projectNoFloor(c, z) ==
    [zz |-> z,
     s |-> Trunc(c.fov * PosScale * SScale, z + c.fov * PosScale)]

\* cam.project(x, y, z), lines 1229-1230: the floored depth zz and the scale
\* s = fov / (zz + fov).  The screen position sx, sy is s times the offsets
\* and depends on the canvas size; it is left out.
project(c, z) ==
    [zz |-> Max(40 * PosScale, z),
     s |-> Trunc(c.fov * PosScale * SScale, Max(40 * PosScale, z) + c.fov * PosScale)]

\* render(): the camera is set from the ship before anything is drawn;
\* pitch = -ship.y * 0.28 * (pitchEffect / 36)
render(c, g) ==
    [c EXCEPT !.horizonY = TUNE.horizonBase,
              !.pitch = Trunc(-g.ship.y * 28 * TUNE.pitchEffect, 3600)]

loopDtUnclamped(elapsed) == elapsed

\* loop: dt = Math.min(0.033, (now - last) / 1000), elapsed = now - last in ticks
loopDt(elapsed) == Min(MaxStep, elapsed)

-----------------------------------------------------------------------------
(* Input handlers *)

keydownEnterAlways(g, k) ==
    LET g1 == IF k = "escape" THEN togglePause(g) ELSE g
    IN  IF k = "enter" THEN newGame(g1) ELSE g1

\* the keydown listener's effect on the game (lines 1117-1120)
keydown(g, k) ==
    LET g1 == IF k = "escape" THEN togglePause(g) ELSE g
    IN  IF k = "enter" /\ (g1.state = "title" \/ g1.state = "gameover")
        THEN newGame(g1) ELSE g1

-----------------------------------------------------------------------------
(* The state machine *)

\* the control vocabulary the player uses (the arrow keys duplicate a, d, w, s)
Keys == {"a", "d", "w", "s", " ", "m", "n", "escape", "enter"}

\* wall time between two animation callbacks, in ticks: a 60 Hz frame, a
\* 30 Hz frame, and a stall of one second
Elapsed == {50, 99, 3000}

Init ==
    /\ game = GameInit
    /\ keys = {}
    /\ cam = [horizonY |-> TUNE.horizonBase, fov |-> TUNE.fov, pitch |-> 0]
    /\ ev = [kind |-> "init", key |-> "", elapsed |-> 0, dt |-> 0,
             hit |-> "none", atHit |-> NoGame, reset |-> FALSE, idle |-> 0,
             hits |-> <<>>]

\* a keydown event of key k (a repeat while held included)
KeyDown(k) ==
    /\ game' = keydown(game, k)
    /\ keys' = keys \cup {k}
    /\ cam' = cam
    /\ ev' = [kind |-> "keydown", key |-> k, elapsed |-> 0, dt |-> 0,
              hit |-> "none", atHit |-> NoGame,
              reset |-> (k = "enter" /\ game.state \in {"title", "gameover"}),
              idle |-> IF game.state = "playing" THEN 0 ELSE ev.idle,
              hits |-> <<>>]

\* a keyup event of a held key k
KeyUp(k) ==
    /\ k \in keys
    /\ game' = game
    /\ keys' = keys \ {k}
    /\ cam' = cam
    /\ ev' = [ev EXCEPT !.kind = "keyup", !.key = k, !.elapsed = 0, !.dt = 0,
                        !.hit = "none", !.atHit = NoGame, !.reset = FALSE,
                        !.hits = <<>>]

\* the pipe spawner's Math.random() < pipeChance, where it is consulted
PipeRolls(g, dt) == IF g.state = "playing" /\ PipeDue(g, dt) THEN BOOLEAN ELSE {FALSE}

\* the enemies' Math.random() < enemyShotsChance, where it is consulted
FireRolls(g, ks, dt, pipeRoll) ==
    IF g.state = "playing"
    THEN SUBSET FireReady(BeforeEntities(g, ks, dt, pipeRoll), dt)
    ELSE {{}}

FrameEffectRenderFirst(r, elapsed, dt) ==
    /\ game' = r.game
    /\ keys' = r.keys
    /\ cam' = render(cam, game)
    /\ ev' = [kind |-> "frame", key |-> "", elapsed |-> elapsed,
              dt |-> dt, hit |-> r.hit, atHit |-> r.atHit, reset |-> r.reset,
              idle |-> IF game.state = "paused" THEN 1 ELSE ev.idle,
              hits |-> r.hits]

\* the loop's effect, given update's result r
FrameEffect(r, elapsed, dt) ==
    /\ game' = r.game
    /\ keys' = r.keys
    /\ cam' = render(cam, r.game)
    /\ ev' = [kind |-> "frame", key |-> "", elapsed |-> elapsed,
              dt |-> dt, hit |-> r.hit, atHit |-> r.atHit, reset |-> r.reset,
              idle |-> IF game.state = "paused" THEN 1 ELSE ev.idle,
              hits |-> r.hits]

\* one animation callback: loop(now) with now - last = elapsed and dt the
\* step it passes to update; play time is bounded by limit
FrameStep(elapsed, dt, limit) ==
    /\ game.state = "playing" => game.t + dt <= limit
    /\ \E pipeRoll \in PipeRolls(game, dt) :
         \E firing \in FireRolls(game, keys, dt, pipeRoll) :
            FrameEffect(update(game, keys, dt, pipeRoll, firing), elapsed, dt)

Frame(elapsed, limit) == FrameStep(elapsed, loopDt(elapsed), limit)

Next ==
    \/ \E k \in Keys : Cardinality(keys \cup {k}) <= MaxHeld /\ KeyDown(k)
    \/ \E k \in Keys : KeyUp(k)
    \/ \E e \in Elapsed : Frame(e, MaxT)

Spec == Init /\ [][Next]_vars

\* A long run at a steady 30 Hz: the player's key events (no release) happen
\* in the first frames, Enter at any time.
RunKeys == {"enter", "escape", "n", "d"}

NextRun ==
    \/ \E k \in RunKeys : (game.t < RunKeyWindow \/ k = "enter") /\ KeyDown(k)
    \/ Frame(MaxStep, MaxTRun)
    \/ \E e \in Elapsed : game.state # "playing" /\ Frame(e, MaxTRun)

SpecRun == Init /\ [][NextRun]_vars

\* A fight in round 1 at a steady 30 Hz: the player picks the movement and
\* laser keys around the first frame (a tap or a hold of S, a tap or a hold of
\* D, the space bar held) and may launch one missile after 25 frames.
FightKeys == {" ", "s", "d"}

MissileFrame == 25 * MaxStep

NextFight ==
    \/ game.state = "title" /\ KeyDown("enter")
    \/ \E k \in FightKeys :
          game.state = "playing" /\ k \notin keys /\ game.t < FightKeyWindow /\ KeyDown(k)
    \/ game.state = "playing" /\ game.t = MissileFrame /\ "m" \notin keys /\ KeyDown("m")
    \/ \E k \in {"s", "d"} : game.t < FightKeyWindow /\ KeyUp(k)
    \/ Frame(MaxStep, MaxTFight)

SpecFight == Init /\ [][NextFight]_vars

\* Round advances at a steady 30 Hz: the player presses N right after a round
\* has started (so advances come back to back) or when an enemy shot is about
\* to reach the ship, and M at a round's start or on a beat of 25 frames (and
\* once more in the frame after, during cooldown).
MissileBeat(t) == t % MissileFrame \in {0, MaxStep}

ShotNear(g) == \E i \in 1..Len(g.enemyShots) : g.enemyShots[i].z < ZAt(g, 200)

NextRounds ==
    \/ game.state = "title" /\ KeyDown("enter")
    \/ /\ game.state = "playing"
       /\ "n" \notin keys
       /\ game.round < MaxRound
       /\ ev.reset \/ ShotNear(game)
       /\ KeyDown("n")
    \/ /\ game.state = "playing"
       /\ "m" \notin keys
       /\ MissileBeat(game.t) \/ ev.reset
       /\ KeyDown("m")
    \/ Frame(MaxStep, MaxTRounds)

SpecRounds == Init /\ [][NextRounds]_vars

\* An untouched run at a steady 60 Hz: Enter starts the game and is released,
\* then no key is touched.
IdleStep == 50

NextIdle ==
    \/ game.state = "title" /\ KeyDown("enter")
    \/ KeyUp("enter")
    \/ Frame(IdleStep, MaxTIdle)

SpecIdle == Init /\ [][NextIdle]_vars

-----------------------------------------------------------------------------
(* Properties *)

IsKeyDown(e, k) == e.kind = "keydown" /\ e.key = k

ShipDefault == [x |-> 0, y |-> TUNE.sitLowerY, vx |-> 0, vy |-> 0]

\* the stream and the enemies a round starts with, from the round number alone
RoundStartRng(round) == RngAdvance(makeRng(9000 + round * 101), 6 * PrefillCount(round))

RoundStartEnemies(round) ==
    Prefill([GameInit EXCEPT !.round = round, !.rng = makeRng(9000 + round * 101)],
            PrefillCount(round)).enemies

\* C1: a frame that finds the game in title, paused or gameover changes
\* nothing in the simulation: the whole game object (ship, collections, timers,
\* cooldowns, rng, score, lives, round, missiles, scrollSpeed, t) and the
\* held-key set stay as they were, whatever the elapsed time and the keys held.
C1_FrozenUnlessPlaying ==
    [][(ev'.kind = "frame" /\ game.state # "playing") => (game' = game /\ keys' = keys)]_vars

\* a frame has just run in gameover with a key held
C1_Witness == ev.kind = "frame" /\ game.state = "gameover" /\ ev.elapsed = 50 /\ "d" \in keys

\* C2: a life-losing collision at lives = 1 ends the game without a round
\* reset: lives is 0, state is gameover, and everything else (collections,
\* ship, rng, timers) is as it was at the moment of the hit.
C2_LastLifeNoReset ==
    (ev.hit # "none" /\ ev.atHit.lives = 1)
        => game = [ev.atHit EXCEPT !.lives = 0, !.state = "gameover"]

C2_Witness == ev.hit # "none" /\ ev.atHit.lives = 1 /\ Len(ev.atHit.enemies) > 0

\* C3 as stated: a life-losing collision at lives > 1 costs exactly one life
\* and resets the current round only: fresh stream for the round, all four
\* collections empty, ship at its default with zero velocity, state still
\* playing, round, score, missiles and scrollSpeed unchanged.
C3_LifeLossClearsAll ==
    (ev.hit # "none" /\ ev.atHit.lives > 1)
        => /\ game.lives = ev.atHit.lives - 1
           /\ game.state = "playing"
           /\ game.rng = RoundStartRng(game.round)
           /\ game.pipes = <<>>
           /\ game.playerShots = <<>>
           /\ game.enemyShots = <<>>
           /\ game.enemies = <<>>
           /\ game.ship = ShipDefault
           /\ game.round = ev.atHit.round
           /\ game.score = ev.atHit.score
           /\ game.missiles = ev.atHit.missiles
           /\ game.scrollSpeed = ev.atHit.scrollSpeed

\* C3, amended: a life-losing collision at lives > 1 costs exactly one life
\* and resets the current round only: fresh stream for the round, no pipe and
\* no shot left, nothing of the old enemies left (the enemies are the round's
\* pre-seeded ones), ship at its default with zero velocity, state still
\* playing, round, score, missiles and scrollSpeed unchanged.
C3_LifeLossResetsRound ==
    (ev.hit # "none" /\ ev.atHit.lives > 1)
        => /\ game.lives = ev.atHit.lives - 1
           /\ game.state = "playing"
           /\ game.rng = RoundStartRng(game.round)
           /\ game.pipes = <<>>
           /\ game.playerShots = <<>>
           /\ game.enemyShots = <<>>
           /\ game.enemies = RoundStartEnemies(game.round)
           /\ game.ship = ShipDefault
           /\ game.round = ev.atHit.round
           /\ game.score = ev.atHit.score
           /\ game.missiles = ev.atHit.missiles
           /\ game.scrollSpeed = ev.atHit.scrollSpeed

C3_Witness ==
    /\ ev.hit = "shot"
    /\ ev.atHit.lives > 1
    /\ ev.atHit.ship.vx # 0
    /\ Len(ev.atHit.enemyShots) > 0

\* C4: lives is always in 0..3; it is 0 exactly in gameover, and at least 1
\* while playing or paused.
C4_LivesRange ==
    /\ game.lives \in 0..3
    /\ (game.lives = 0) <=> (game.state = "gameover")
    /\ game.state \in {"playing", "paused"} => game.lives >= 1

C4_Witness == game.state = "gameover" /\ game.lives = 0

\* C5: the state changes only by title -> playing and gameover -> playing on
\* Enter, playing <-> paused on Escape, and playing -> gameover on the loss of
\* the last life; Enter while playing or paused changes nothing in the game.
C5_StateTransitions ==
    [][/\ game'.state # game.state =>
            \/ /\ game.state \in {"title", "gameover"}
               /\ game'.state = "playing"
               /\ IsKeyDown(ev', "enter")
            \/ /\ game.state = "playing"
               /\ game'.state = "paused"
               /\ IsKeyDown(ev', "escape")
            \/ /\ game.state = "paused"
               /\ game'.state = "playing"
               /\ IsKeyDown(ev', "escape")
            \/ /\ game.state = "playing"
               /\ game'.state = "gameover"
               /\ ev'.kind = "frame"
               /\ ev'.hit # "none"
               /\ game'.lives = 0
       /\ (IsKeyDown(ev', "enter") /\ game.state \in {"playing", "paused"})
            => game' = game]_vars

\* Enter was pressed during a pause of a game in progress
C5_Witness == IsKeyDown(ev, "enter") /\ game.state = "paused" /\ game.score > 0

\* C6: Escape toggles playing and paused and does nothing in title and
\* gameover, and nothing but Escape changes the game while it is paused: so the
\* game resumes exactly as it was paused, however many frames ran in between.
C6_PauseLossless ==
    [][/\ IsKeyDown(ev', "escape") =>
            game' = [game EXCEPT !.state = IF @ = "playing" THEN "paused"
                                           ELSE IF @ = "paused" THEN "playing"
                                           ELSE @]
       /\ (game.state = "paused" /\ ~IsKeyDown(ev', "escape")) => game' = game]_vars

\* resumed by Escape after a frame ran during the pause of a game in progress
C6_Witness ==
    IsKeyDown(ev, "escape") /\ game.state = "playing" /\ ev.idle = 1 /\ game.t > 0

\* C7: the next frame is a function of the state, the keys and dt: whatever
\* Math.random returns, the same spawns and positions result.
C7_Deterministic ==
    \A p1 \in PipeRolls(game, MaxStep), p2 \in PipeRolls(game, MaxStep) :
        \A f1 \in FireRolls(game, keys, MaxStep, p1), f2 \in FireRolls(game, keys, MaxStep, p2) :
            update(game, keys, MaxStep, p1, f1).game = update(game, keys, MaxStep, p2, f2).game

\* C8: after every resetRound the stream is the one seeded with
\* 9000 + round * 101 (9101 in round 1) and advanced by the pre-seeding alone,
\* and the enemies are the same pre-seeded ones for that round, whatever had
\* been drawn before.
C8_ReseedPerRound ==
    ev.reset =>
        /\ game.rng = RoundStartRng(game.round)
        /\ game.round = 1 => game.rng = RngAdvance(makeRng(9101), 6)
        /\ game.enemies = RoundStartEnemies(game.round)

\* a round restarted by a life loss, after draws from the old stream
C8_Witness == ev.reset /\ ev.hit # "none" /\ ev.atHit.rng # RoundStartRng(game.round)

\* C9 as stated: resetRound twice gives what resetRound once gives, and that
\* state has all four collections empty and the ship at its default.
C9_ResetEntityFree ==
    LET r == resetRound(game)
    IN  /\ resetRound(r) = r
        /\ r.enemies = <<>>
        /\ r.pipes = <<>>
        /\ r.playerShots = <<>>
        /\ r.enemyShots = <<>>
        /\ r.ship = ShipDefault

\* C9, amended: resetRound twice gives what resetRound once gives; that state
\* has no pipe and no shot, the ship at its default with zero velocity, and as
\* enemies exactly the round's pre-seeded ones, none from before the reset.
C9_ResetIdempotent ==
    LET r == resetRound(game)
    IN  /\ resetRound(r) = r
        /\ r.enemies = RoundStartEnemies(game.round)
        /\ r.pipes = <<>>
        /\ r.playerShots = <<>>
        /\ r.enemyShots = <<>>
        /\ r.ship = ShipDefault

\* a reset has just discarded pipes and enemies spawned during play
C9_Witness ==
    /\ ev.reset
    /\ ev.hit = "pipe"
    /\ Len(ev.atHit.pipes) > 0
    /\ ev.atHit.enemies # RoundStartEnemies(game.round)
    /\ game.pipes = <<>>

\* C10: the dt passed to update never exceeds the maximum step, whatever the
\* elapsed wall time, and play time advances by no more than that per frame.
C10_StepClamped ==
    [][ev'.kind = "frame" => (ev'.dt <= MaxStep /\ game'.t <= game.t + MaxStep)]_vars

\* a stalled frame during play was cut to the maximum step
C10_Witness ==
    /\ ev.kind = "frame"
    /\ ev.elapsed > MaxStep
    /\ ev.dt = MaxStep
    /\ game.state = "playing"
    /\ game.t >= MaxStep

\* C11: in every reachable state the ship is inside the corridor at its own
\* depth: |ship.x| <= trenchHalfWAt(shipZ) - padX, which is 228, and
\* |ship.y| <= trenchHalfH - padY, which is 94.
C11_ShipInCorridor ==
    /\ trenchHalfWAt(game, game.shipZ * PosScale) - TUNE.padX = 228 * PosScale
    /\ TUNE.trenchHalfH - TUNE.padY = 94 * PosScale
    /\ Abs(game.ship.x) <= trenchHalfWAt(game, game.shipZ * PosScale) - TUNE.padX
    /\ Abs(game.ship.y) <= TUNE.trenchHalfH - TUNE.padY

\* the ship is held against the right wall and the upper bound at once, still
\* pushing outward
C11_Witness ==
    /\ game.ship.x = 228 * PosScale
    /\ game.ship.y = 94 * PosScale
    /\ game.ship.vx > 0
    /\ game.ship.vy > 0

\* C12: a player shot resolves at most one collision in its lifetime.  Every
\* hit is made by a shot that was alive and on an enemy that was alive with
\* hp > 0; the hit marks the shot dead, so no shot hits twice in a frame, and
\* since nothing revives a shot, none hits in a later frame either.  Until the
\* next frame's filter the shot stays in the collection, dead.
C12_OneHitPerShot ==
    /\ \A a \in 1..Len(ev.hits) :
          /\ ev.hits[a].shotAlive
          /\ ~ev.hits[a].shotAliveAfter
          /\ ev.hits[a].enemyAlive
          /\ ev.hits[a].hp > 0
          /\ \A b \in 1..Len(ev.hits) : a # b => ev.hits[a].shot # ev.hits[b].shot
    /\ ~ev.reset =>
          \A a \in 1..Len(ev.hits) : ~game.playerShots[ev.hits[a].shot].alive

\* a laser has hit one of two enemies while a second laser was in flight
C12_Witness ==
    /\ Len(ev.hits) = 1
    /\ ev.hits[1].kind = "laser"
    /\ Len(game.enemies) >= 2
    /\ Len(game.playerShots) >= 2
    /\ ~game.playerShots[ev.hits[1].shot].alive

C14_DamageAndScore ==
    /\ \A a \in 1..Len(ev.hits) :
          /\ ev.hits[a].kind = "laser" =>
                ev.hits[a].hpAfter = ev.hits[a].hp - 1 /\ ev.hits[a].gain = 120
          /\ ev.hits[a].kind = "missile" =>
                ev.hits[a].hpAfter = ev.hits[a].hp - 2 /\ ev.hits[a].gain = 220
          /\ ev.hits[a].enemyAliveAfter <=> ev.hits[a].hpAfter > 0
    /\ \A i \in 1..Len(game.enemies) :
          /\ game.enemies[i].hp \in -1..2
          /\ game.enemies[i].alive <=> game.enemies[i].hp > 0
    /\ Enemy(0, 0, 0, game.rng).hp = 2
    /\ Enemy(0, 0, 0, game.rng).alive

\* a missile has destroyed an enemy that a laser had hit before
C14_Witness ==
    \E a \in 1..Len(ev.hits) :
        /\ ev.hits[a].kind = "missile"
        /\ ev.hits[a].hp = 1
        /\ ev.hits[a].hpAfter = -1
        /\ ~ev.hits[a].enemyAliveAfter
        /\ ev.hits[a].gain = 220

\* does the frame that starts in game g with keys ks held launch a missile?
MissileLaunched(g, ks, dt) ==
    down(ks, "m") /\ Max(0, g.missileCd - dt) = 0 /\ g.missiles > 0

\* C15: a round advance adds exactly 1 to round, 40 to scrollSpeed up to 920
\* and 1 to missiles up to 6, leaves lives alone and then resets the round as
\* a life loss does (the state is one that resetRound leaves as it is).  The
\* round number is at least 1 and only a new game lowers it; scrollSpeed is
\* always within 600..920.
C15_RoundAdvance ==
    [][/\ (ev'.kind = "frame" /\ ev'.reset /\ ev'.hit = "none") =>
            /\ game'.round = game.round + 1
            /\ game'.scrollSpeed = Min(920, game.scrollSpeed + 40)
            /\ game'.missiles =
                   Min(6, game.missiles + 1
                            - (IF MissileLaunched(game, keys, ev'.dt) THEN 1 ELSE 0))
            /\ game'.lives = game.lives
            /\ game'.state = "playing"
            /\ resetRound(game') = game'
            /\ game'.enemies = RoundStartEnemies(game'.round)
            /\ "n" \notin keys'
       /\ game'.round < game.round => IsKeyDown(ev', "enter") /\ game'.round = 1
       /\ game'.round >= 1
       /\ game'.scrollSpeed \in 600..920]_vars

\* the advance to round 10, where both caps act
C15_Witness ==
    /\ ev.kind = "frame"
    /\ ev.reset
    /\ ev.hit = "none"
    /\ game.round = 10
    /\ game.scrollSpeed = 920
    /\ game.missiles = 6

\* C16: every round advance narrows the near corridor half-width unless it
\* is already at a floor below its initial value, and the near half-width is
\* never below the far half-width.
C16_NearWidthNarrows ==
    [][/\ (ev'.kind = "frame" /\ ev'.reset /\ ev'.hit = "none") =>
            \/ game'.trenchNearHalfW < game.trenchNearHalfW
            \/ /\ game'.trenchNearHalfW = game.trenchNearHalfW
               /\ game.trenchNearHalfW < TUNE.trenchNearHalfW
       /\ game'.trenchNearHalfW >= game'.trenchFarHalfW]_vars

\* the missiles of game g that have been updated exactly once
FreshMissiles(g) ==
    {i \in 1..Len(g.playerShots) :
        g.playerShots[i].kind = "missile" /\ Len(g.playerShots[i].trail) = 1}

\* C17: missiles is always in 0..6.  fireMissile launches one missile and
\* takes exactly 1 from the stock when missiles > 0 and missileCd = 0, and
\* otherwise changes nothing; in a frame the stock changes by that launch and
\* by a round advance (+1 up to 6) only, and outside frames only newGame
\* changes it (to 3).
C17_MissileStock ==
    [][/\ game'.missiles \in 0..6
       /\ IF game.missiles > 0 /\ game.missileCd = 0
          THEN /\ fireMissile(game).missiles = game.missiles - 1
               /\ fireMissile(game).playerShots =
                      Append(game.playerShots,
                             MissileShot(game.ship.x, game.ship.y, ZAt(game, 85)))
          ELSE fireMissile(game) = game
       /\ (ev'.kind = "frame" /\ game.state = "playing") =>
             /\ game'.missiles =
                    IF ev'.reset /\ ev'.hit = "none"
                    THEN Min(6, game.missiles + 1
                                  - (IF MissileLaunched(game, keys, ev'.dt) THEN 1 ELSE 0))
                    ELSE game.missiles
                           - (IF MissileLaunched(game, keys, ev'.dt) THEN 1 ELSE 0)
             /\ ~ev'.reset =>
                   (MissileLaunched(game, keys, ev'.dt) <=> FreshMissiles(game') # {})
       /\ ev'.kind # "frame" =>
             \/ game'.missiles = game.missiles
             \/ IsKeyDown(ev', "enter") /\ game'.missiles = 3]_vars

\* the third missile has just been launched: the stock is empty
C17_Witness ==
    /\ ev.kind = "frame"
    /\ game.missiles = 0
    /\ FreshMissiles(game) # {}
    /\ game.missileCd = TUNE.missileCooldown

\* C18: entities leave their collections once they are out of range, so
\* that none stays for ever: after every frame no shot in a collection is
\* beyond farZ + 350 or more than 280 behind the ship, no pipe is more than
\* 280 behind and no enemy more than 160 behind.
C18_OutOfRangeRetired ==
    ev.kind = "frame" =>
        /\ \A i \in 1..Len(game.playerShots) :
              /\ game.playerShots[i].z <= (TUNE.farZ + 350) * PosScale
              /\ game.playerShots[i].z >= ZAt(game, -280)
        /\ \A i \in 1..Len(game.enemyShots) :
              /\ game.enemyShots[i].z <= (TUNE.farZ + 350) * PosScale
              /\ game.enemyShots[i].z >= ZAt(game, -280)
        /\ \A i \in 1..Len(game.pipes) : game.pipes[i].z >= ZAt(game, -280)
        /\ \A i \in 1..Len(game.enemies) : game.enemies[i].z >= ZAt(game, -160)

\* C19: in a playing frame of the maximum step every enemy, pipe and enemy
\* shot of the game gets a strictly smaller depth and every player shot a
\* strictly larger one.
C19_DepthMonotone ==
    game.state = "playing" =>
        /\ \A i \in 1..Len(game.playerShots) :
              ShotUpdate(game, game.playerShots[i], MaxStep).z > game.playerShots[i].z
        /\ \A i \in 1..Len(game.enemyShots) :
              ShotUpdate(game, game.enemyShots[i], MaxStep).z < game.enemyShots[i].z
        /\ \A i \in 1..Len(game.pipes) :
              PipeUpdate(game, game.pipes[i], MaxStep).z < game.pipes[i].z
        /\ \A i \in 1..Len(game.enemies) :
              EnemyMove(game, game.enemies[i], MaxStep).z < game.enemies[i].z

\* C20: what render() is given after update has only live entities: every
\* element of the four collections has alive = TRUE, in the frame of a hit as
\* in any other.
C20_OnlyLiveDrawn ==
    ev.kind = "frame" =>
        /\ \A i \in 1..Len(game.enemies) : game.enemies[i].alive
        /\ \A i \in 1..Len(game.pipes) : game.pipes[i].alive
        /\ \A i \in 1..Len(game.playerShots) : game.playerShots[i].alive
        /\ \A i \in 1..Len(game.enemyShots) : game.enemyShots[i].alive

\* the enemies and the pipes that the spawners create in the next frame of
\* the maximum step, as created, if the pipe roll succeeds
SpawnedEnemies(g) ==
    SubSeq(SpawnStep(g, MaxStep, TRUE).enemies, Len(g.enemies) + 1,
           Len(SpawnStep(g, MaxStep, TRUE).enemies))

SpawnedPipes(g) ==
    SubSeq(SpawnStep(g, MaxStep, TRUE).pipes, Len(g.pipes) + 1,
           Len(SpawnStep(g, MaxStep, TRUE).pipes))

\* C21: every enemy and every pipe that a spawn timer creates during play is
\* created at a depth greater than farZ = 3000.
C21_SpawnBeyondHorizon ==
    game.state = "playing" =>
        /\ \A i \in 1..Len(SpawnedEnemies(game)) :
              SpawnedEnemies(game)[i].z > TUNE.farZ * PosScale
        /\ \A i \in 1..Len(SpawnedPipes(game)) :
              SpawnedPipes(game)[i].z > TUNE.farZ * PosScale

\* C22: every enemy is created inside the corridor at its own depth, with
\* the margin of 95: |x| <= trenchHalfWAt(z) - 95, for the enemies a reset
\* pre-seeds and for those the timer creates.
C22_SpawnInsideCorridor ==
    /\ game.state = "playing" =>
          \A i \in 1..Len(SpawnedEnemies(game)) :
              Abs(SpawnedEnemies(game)[i].x)
                 <= trenchHalfWAt(game, SpawnedEnemies(game)[i].z) - 95 * PosScale
    /\ ev.reset =>
          \A i \in 1..Len(game.enemies) :
              Abs(game.enemies[i].x)
                 <= trenchHalfWAt(game, game.enemies[i].z) - 95 * PosScale

\* how many of the enemies and of the pipes of game g the frame's filter
\* removes
RetiringEnemies(g, dt) ==
    Cardinality({i \in 1..Len(g.enemies) :
                    ~g.enemies[i].alive \/ EnemyMove(g, g.enemies[i], dt).z < ZAt(g, -160)})

RetiringPipes(g, dt) ==
    Cardinality({i \in 1..Len(g.pipes) : ~PipeUpdate(g, g.pipes[i], dt).alive})

\* C23: in a playing frame in which a spawn timer reaches zero exactly one
\* entity of its category is created and the timer is set back to a positive
\* value, by an interval within 0.95..3.2 s for enemies and 1.5..2.9 s for
\* pipes; in a frame in which it does not, none is created.
C23_OneSpawnPerExpiry ==
    [][(ev'.kind = "frame" /\ game.state = "playing" /\ ~ev'.reset /\ ev'.hit = "none") =>
          /\ IF game.enemyTimer - ev'.dt <= 0
             THEN /\ Len(game'.enemies)
                       = Len(game.enemies) - RetiringEnemies(game, ev'.dt) + 1
                  /\ game'.enemyTimer > 0
                  /\ game'.enemyTimer - (game.enemyTimer - ev'.dt) \in 2850..9600
             ELSE /\ Len(game'.enemies) = Len(game.enemies) - RetiringEnemies(game, ev'.dt)
                  /\ game'.enemyTimer = game.enemyTimer - ev'.dt
          /\ IF game.pipeTimer - ev'.dt <= 0
             THEN /\ Len(game'.pipes) = Len(game.pipes) - RetiringPipes(game, ev'.dt) + 1
                  /\ game'.pipeTimer > 0
                  /\ game'.pipeTimer - (game.pipeTimer - ev'.dt) \in 4500..8700
             ELSE /\ Len(game'.pipes) = Len(game.pipes) - RetiringPipes(game, ev'.dt)
                  /\ game'.pipeTimer = game.pipeTimer - ev'.dt]_vars

\* C24: the missile key is edge-triggered.  A playing frame removes M from
\* the held keys, whether fireMissile launched or refused; a missile is
\* launched only in a frame that began with M held; and only a keydown of M
\* puts M among the held keys.  So one keydown gives at most one call of
\* fireMissile however long the key stays down.
C24_MissileEdgeTriggered ==
    [][/\ (ev'.kind = "frame" /\ game.state = "playing") =>
            /\ "m" \notin keys'
            /\ (game'.missiles < game.missiles \/ FreshMissiles(game') # {}) => "m" \in keys
       /\ ev'.kind # "frame" =>
            /\ game'.missiles = game.missiles \/ IsKeyDown(ev', "enter")
            /\ FreshMissiles(game') \subseteq FreshMissiles(game)
       /\ ("m" \in keys' /\ "m" \notin keys) => IsKeyDown(ev', "m")]_vars

\* a frame has launched a missile and taken M from the held keys
C24_Witness ==
    /\ ev.kind = "frame"
    /\ FreshMissiles(game) # {}
    /\ game.missiles = 2
    /\ "m" \notin keys

\* the survival bonus one frame of dt adds in g's round (line 2205)
FrameBonus(g, dt) == SurvivalScore(g, dt).score - g.score

\* C25: the survival bonus of a duration depends on the duration and the round
\* only, not on its split into frames: 4950 ticks (1.65 s) played as 99 frames
\* of 1/60 s earn what they earn as 50 frames of 0.033 s, and a frame of
\* positive length earns a positive bonus.
C25_BonusSplitIndependent ==
    game.state = "playing" =>
        /\ 99 * FrameBonus(game, 50) = 50 * FrameBonus(game, MaxStep)
        /\ FrameBonus(game, 50) > 0

\* C26: from the reset of round 1 (seed 9101) with no key touched, 300 frames
\* of dt = 1/60 cause no collision: lives stays 3, the round is never reset
\* again, no hit is logged and no enemy is damaged; the score is the survival
\* bonus of the frames played and nothing else; and the pre-seeded enemies
\* start at depth >= shipZ + 900, beyond the enemy depth window and the ship's
\* hit radius.
C26_IdleRunSafe ==
    game.state # "title" =>
        /\ game.state = "playing" /\ game.round = 1 /\ game.lives = 3
        /\ ev.hit = "none" /\ ev.hits = <<>>
        /\ ev.kind = "frame" => ~ev.reset
        /\ \A i \in 1..Len(game.enemies) : game.enemies[i].hp = 2
        /\ game.score = (game.t \div IdleStep) * FrameBonus(GameInit, IdleStep)
        /\ ev.reset =>
             /\ game.rng = RoundStartRng(1)
             /\ Len(game.enemies) = PrefillCount(1)
             /\ \A i \in 1..Len(game.enemies) :
                  /\ game.enemies[i].z >= ZAt(game, 900)
                  /\ game.enemies[i].z - ZAt(game, 0) > TUNE.enemyZWindow
                  /\ game.enemies[i].z - ZAt(game, 0) > game.shipHitR

\* all 300 frames have been played: 5 s of play, enemies and pipes in the trench
C26_Witness ==
    /\ game.t = MaxTIdle
    /\ game.lives = 3
    /\ game.score = 300
    /\ Len(game.enemies) > 0
    /\ Len(game.pipes) > 0

\* 32-bit arithmetic on halves, by shift and add: a reference for the
\* generator's step that shares nothing with RngNext
Add32(p, q) ==
    [lo |-> (p.lo + q.lo) % 65536,
     hi |-> (p.hi + q.hi + (p.lo + q.lo) \div 65536) % 65536]

RECURSIVE Mul32(_, _)
Mul32(p, k) ==
    IF k = 0 THEN [hi |-> 0, lo |-> 0]
    ELSE IF k % 2 = 1 THEN Add32(p, Mul32(Add32(p, p), k \div 2))
    ELSE Mul32(Add32(p, p), k \div 2)

LcgRef(s) == Add32(Mul32(s, 1664525), makeRng(1013904223))

\* the most draws one frame makes from the round's stream
MaxDraws == 32

\* C27: the generator is a total, pure 32-bit LCG.  Its state is always in
\* 0..2^32-1, a draw takes s to (1664525 * s + 1013904223) mod 2^32 and
\* returns a value in [0, 1); a generator made from a seed gives the seed's
\* sequence whatever was drawn from the generators before it; and the game's
\* stream moves only by draws: a frame without a round reset leaves it some
\* number of LCG steps on, a key event that starts no round leaves it alone.
C27_RngIsLcg ==
    [][/\ game.rng.hi \in 0..65535 /\ game.rng.lo \in 0..65535
       /\ RngNext(game.rng) = LcgRef(game.rng)
       /\ RngVal(RngNext(game.rng)) \in 0..65535
       /\ ev'.reset => game'.rng = RngAdvance(makeRng(9000 + game'.round * 101),
                                              6 * PrefillCount(game'.round))
       /\ (ev'.kind = "frame" /\ ~ev'.reset) =>
             \E n \in 0..MaxDraws : game'.rng = RngAdvance(game.rng, n)
       /\ (ev'.kind # "frame" /\ ~ev'.reset) => game'.rng = game.rng]_vars

\* a frame has drawn from the stream: an enemy was spawned after the reset
C27_Witness ==
    /\ ev.kind = "frame"
    /\ game.state = "playing"
    /\ game.rng # RoundStartRng(game.round)
    /\ Len(game.enemies) > PrefillCount(game.round)

RECURSIVE NextSpawn(_, _)
\* position and initial velocity of the next enemy the timer spawns when the
\* game runs from g in frames of dt with no key held (the Math.random rolls
\* all failing); <<>> if play ends first
NextSpawn(g, dt) ==
    IF g.state # "playing" THEN <<>>
    ELSE IF g.enemyTimer - dt <= 0
    THEN LET e == EnemySpawner(g, dt, RngNext(g.rng)).enemies[Len(g.enemies) + 1]
         IN  <<e.x, e.y, e.z, e.vx, e.vy>>
    ELSE NextSpawn(update(g, {}, dt, FALSE, {}).game, dt)

\* C28: the spawns do not depend on how the time is split into frames: after
\* a round reset the first enemy the timer spawns has the same position and
\* initial velocity when the second before it is played in 31 frames of
\* 0.033 s as when it is played in 60 frames of 1/60 s.
C28_SpawnsFrameIndependent ==
    (ev.reset /\ game.state = "playing") =>
        NextSpawn(game, MaxStep) = NextSpawn(game, IdleStep)

\* the progression and the round that newGame leaves in n
FreshGame(n) ==
    /\ n.round = 1 /\ n.score = 0 /\ n.lives = 3 /\ n.missiles = 3
    /\ n.scrollSpeed = 600
    /\ n.trenchNearHalfW = 320 /\ n.trenchFarHalfW = 120
    /\ n.state = "playing"
    /\ n.rng = RoundStartRng(1)
    /\ n.enemies = RoundStartEnemies(1)
    /\ n.pipes = <<>> /\ n.playerShots = <<>> /\ n.enemyShots = <<>>
    /\ n.ship = ShipDefault

\* C29: newGame resets all progression whatever the values before it: from
\* every state of the game it gives round 1, score 0, lives 3, missiles 3,
\* scrollSpeed 600, half-widths 320 and 120, the state of a round reset of
\* round 1, and state playing; the Enter that starts a game leaves exactly
\* that.
C29_NewGameResetsAll ==
    /\ FreshGame(newGame(game))
    /\ (IsKeyDown(ev, "enter") /\ ev.reset) => FreshGame(game)

\* a game started over after a game that was played and lost
C29_Witness ==
    /\ IsKeyDown(ev, "enter")
    /\ ev.reset
    /\ game.t > 0
    /\ FreshGame(game)

\* the entity a drawable stands for is in its collection, at the drawable's depth
DrawnEntity(g, d) ==
    \/ d.cat = "pipe" /\ d.i \in 1..Len(g.pipes) /\ g.pipes[d.i].z = d.z
    \/ d.cat = "enemy" /\ d.i \in 1..Len(g.enemies) /\ g.enemies[d.i].z = d.z
    \/ d.cat = "playerShot" /\ d.i \in 1..Len(g.playerShots) /\ g.playerShots[d.i].z = d.z
    \/ d.cat = "enemyShot" /\ d.i \in 1..Len(g.enemyShots) /\ g.enemyShots[d.i].z = d.z

\* d holds each entity of g once and nothing else, farthest first
PaintersOrder(g, d) ==
    /\ Len(d) = Len(g.pipes) + Len(g.enemies) + Len(g.playerShots) + Len(g.enemyShots)
    /\ \A k \in 1..Len(d) :
          /\ DrawnEntity(g, d[k])
          /\ \A j \in 1..Len(d) : (d[j].cat = d[k].cat /\ d[j].i = d[k].i) => j = k
          /\ k > 1 => d[k - 1].z >= d[k].z

\* C30: render draws in painter's order: the drawn sequence is a permutation
\* of all pipes, enemies, player shots and enemy shots together (each entity
\* once, none other), and its depth never increases from one drawable to the
\* next.
C30_PaintersOrder == PaintersOrder(game, drawables(game))

\* entities of three categories are on screen and the sort has reordered them
C30_Witness ==
    /\ ev.kind = "frame"
    /\ Len(game.enemies) > 0 /\ Len(game.playerShots) > 1 /\ Len(game.enemyShots) > 0
    /\ drawables(game) # DrawList(game)

\* the corridor as a round reset leaves it: one enemy in round 1, two in
\* rounds 2 and 3, three from round 4 on, whole and ahead of the ship
SeededCorridor(n) ==
    /\ Len(n.enemies) = (IF n.round < 2 THEN 1 ELSE IF n.round < 4 THEN 2 ELSE 3)
    /\ \A i \in 1..Len(n.enemies) :
          /\ n.enemies[i].hp = 2
          /\ n.enemies[i].alive
          /\ n.enemies[i].z >= ZAt(n, 900)
          /\ n.enemies[i].z < ZAt(n, 1800)
    /\ n.pipes = <<>> /\ n.playerShots = <<>> /\ n.enemyShots = <<>>

\* C31: immediately after resetRound the corridor is never empty: it holds
\* exactly 1 + min(2, floor(round / 2)) enemies, each with hp 2 at a depth in
\* [shipZ + 900, shipZ + 1800), and no pipe, player shot or enemy shot; so
\* from every state of the game, and so after every reset that happens.
C31_CorridorNeverEmpty ==
    /\ SeededCorridor(resetRound(game))
    /\ ev.reset => SeededCorridor(game)

\* a frame has reset a round that starts with three enemies
C31_Witness ==
    /\ ev.kind = "frame"
    /\ ev.reset
    /\ game.round >= 4
    /\ Len(game.enemies) = 3

\* depths to try the corridor width at: every 250 world units from behind the
\* ship to beyond the horizon, the two ends of the ramp and the depths of the
\* entities in play
DepthSamples(g) ==
    {k * 250 * PosScale : k \in -2..14}
      \cup {g.shipZ * PosScale, TUNE.farZ * PosScale}
      \cup {g.enemies[i].z : i \in 1..Len(g.enemies)}
      \cup {g.pipes[i].z : i \in 1..Len(g.pipes)}
      \cup {g.playerShots[i].z : i \in 1..Len(g.playerShots)}
      \cup {g.enemyShots[i].z : i \in 1..Len(g.enemyShots)}

\* the corridor narrows with depth over the depths zs
Narrowing(g, zs) ==
    \A z1 \in zs :
        /\ \A z2 \in zs : z1 <= z2 => trenchHalfWAt(g, z1) >= trenchHalfWAt(g, z2)
        /\ trenchHalfWAt(g, z1) >= trenchHalfWAt(g, z1 + 1)
        /\ z1 <= g.shipZ * PosScale => trenchHalfWAt(g, z1) = g.trenchNearHalfW * PosScale
        /\ z1 >= TUNE.farZ * PosScale => trenchHalfWAt(g, z1) = g.trenchFarHalfW * PosScale
        /\ trenchHalfWAt(g, z1) <= g.trenchNearHalfW * PosScale
        /\ trenchHalfWAt(g, z1) >= g.trenchFarHalfW * PosScale

\* C32: trenchHalfWAt is monotonically non-increasing in z; it equals
\* trenchNearHalfW for every z <= shipZ and trenchFarHalfW for every
\* z >= farZ, and stays between the two elsewhere.
C32_HalfWidthNarrows == Narrowing(game, DepthSamples(game))

\* entities are in play on the ramp, where the width is strictly between the
\* two ends, and behind the ship, where it is the near width
C32_Witness ==
    /\ \E i \in 1..Len(game.enemies) :
          /\ trenchHalfWAt(game, game.enemies[i].z) < game.trenchNearHalfW * PosScale
          /\ trenchHalfWAt(game, game.enemies[i].z) > game.trenchFarHalfW * PosScale
    /\ \E i \in 1..Len(game.enemyShots) : game.enemyShots[i].z < game.shipZ * PosScale

\* C33: a destroyed enemy acts no more: in no frame does an enemy whose hp
\* has reached 0 or less come to the fire decision of Enemy.update, where it
\* draws from the round's stream and may create an enemy shot.
C33_DestroyedEnemySilent ==
    [][(ev'.kind = "frame" /\ game.state = "playing") =>
          \A i \in FireReady(game, ev'.dt) : game.enemies[i].hp > 0]_vars

\* g at the scroll speed cap
Fastest(g) == [g EXCEPT !.scrollSpeed = 920]

\* a move from depth z0 to depth z1 that jumps the window of half-width w
\* (world units) around the ship's depth
StepsOver(g, z0, z1, w) == z0 > ZAt(g, w) /\ z1 < ZAt(g, -w)

\* no pipe of g skips its hit window in a frame of dt, nor in the longest
\* frame at the speed cap, whose step is shorter than the window
PipesMeetWindow(g, dt) ==
    \A i \in 1..Len(g.pipes) :
        /\ ~StepsOver(g, g.pipes[i].z, PipeUpdate(g, g.pipes[i], dt).z, 95)
        /\ g.pipes[i].z - PipeUpdate(Fastest(g), g.pipes[i], MaxStep).z < ZAt(g, 95) - ZAt(g, -95)

\* the same for the enemy shots of g
EnemyShotsMeetWindow(g, dt) ==
    \A i \in 1..Len(g.enemyShots) :
        /\ ~StepsOver(g, g.enemyShots[i].z, ShotUpdate(g, g.enemyShots[i], dt).z, 120)
        /\ g.enemyShots[i].z - ShotUpdate(Fastest(g), g.enemyShots[i], MaxStep).z
              < ZAt(g, 120) - ZAt(g, -120)

\* C34: no hit can be skipped by a large step.  In every playing frame
\* dt <= 0.033 and scrollSpeed <= 920; no pipe goes from above shipZ + 95 to
\* below shipZ - 95 and no enemy shot from above shipZ + 120 to below
\* shipZ - 120 in one frame; and whatever is inside its window after a frame
\* that cost no life has been tested and missed the ship.
C34_NoHitSkipped ==
    [][(ev'.kind = "frame" /\ game.state = "playing") =>
          /\ ev'.dt <= MaxStep
          /\ game.scrollSpeed <= 920
          /\ PipesMeetWindow(game, ev'.dt)
          /\ EnemyShotsMeetWindow(game, ev'.dt)
          /\ (ev'.hit = "none" /\ ~ev'.reset /\ RetiringPipes(game, ev'.dt) = 0) =>
                \A i \in 1..Len(game.pipes) :
                    game'.pipes[i].z = PipeUpdate(game, game.pipes[i], ev'.dt).z
          /\ (ev'.hit = "none" /\ game'.state = "playing") =>
                ~PipeHit(game') /\ ~EnemyShotHit(game')]_vars

\* a pipe has passed the ship's depth inside its window, under test, with
\* enemy shots in flight
C34_Witness ==
    /\ ev.kind = "frame"
    /\ ev.hit = "none"
    /\ Len(game.enemyShots) > 0
    /\ \E i \in 1..Len(game.pipes) :
          game.pipes[i].z < ZAt(game, 0) /\ game.pipes[i].z >= ZAt(game, -95)

\* the depth a missile gains in one frame of the maximum step
MissileStride(g) == (720 * MaxStep) \div 10 - (g.scrollSpeed * MaxStep) \div 10

\* the trail t1 is the trail t0 with the position p pushed, cut to its last
\* trailMax entries
PushedTrail(t0, p, t1) ==
    /\ Len(t1) = Min(trailMax, Len(t0) + 1)
    /\ t1[Len(t1)] = p
    /\ \A k \in 1..(Len(t1) - 1) : t1[k] = t0[k + Len(t0) + 1 - Len(t1)]

\* the trail of the missile s is at most trailMax long and holds the
\* positions s had before each of its latest updates, oldest first
RecentTrail(g, s) ==
    /\ Len(s.trail) <= trailMax
    /\ \A k \in 1..Len(s.trail) :
          /\ s.trail[k].x = s.x /\ s.trail[k].y = s.y
          /\ s.trail[k].z = s.z - (Len(s.trail) + 1 - k) * MissileStride(g)
    /\ PushedTrail(s.trail, [x |-> s.x, y |-> s.y, z |-> s.z],
                   MissileUpdate(g, s, MaxStep).trail)

\* C35: a missile's trail buffer is bounded: after any number of updates its
\* length is at most trailMax = 14, and it holds the most recent positions in
\* order, the oldest entry being the one dropped.
C35_TrailBounded ==
    \A i \in 1..Len(game.playerShots) :
        game.playerShots[i].kind = "missile" => RecentTrail(game, game.playerShots[i])

\* a missile has flown for more than trailMax frames with a full trail
C35_Witness ==
    /\ game.t >= MissileFrame + 20 * MaxStep
    /\ \E i \in 1..Len(game.playerShots) :
          /\ game.playerShots[i].kind = "missile"
          /\ game.playerShots[i].alive
          /\ Len(game.playerShots[i].trail) = trailMax

\* the game and the held keys are exactly what update(dt) returns for some
\* outcome of its Math.random rolls
UpdateOnly(g, ks, dt, g1, ks1) ==
    \E pipeRoll \in PipeRolls(g, dt) :
        \E firing \in FireRolls(g, ks, dt, pipeRoll) :
            /\ g1 = update(g, ks, dt, pipeRoll, firing).game
            /\ ks1 = update(g, ks, dt, pipeRoll, firing).keys

\* C36: in every loop iteration update(dt) runs to completion before
\* render(), and render() leaves the simulation alone: after a frame the game
\* and the keys are update's result and nothing more (the stream is where
\* update left it), and of the camera only horizonY and pitch are written,
\* from the ship as update has moved it; no other event touches the camera.
C36_RenderAfterUpdate ==
    [][/\ ev'.kind = "frame" =>
            /\ UpdateOnly(game, keys, ev'.dt, game', keys')
            /\ cam'.fov = cam.fov
            /\ cam'.horizonY = TUNE.horizonBase
            /\ cam'.pitch = Trunc(-game'.ship.y * 28 * TUNE.pitchEffect, 3600)
       /\ ev'.kind # "frame" => cam' = cam]_vars

\* a frame in which update has moved the ship off its default height and the
\* camera pitch follows it, with enemies to draw
C36_Witness ==
    /\ ev.kind = "frame"
    /\ game.state = "playing"
    /\ game.ship.y # ShipDefault.y
    /\ cam.pitch # Trunc(-ShipDefault.y * 28 * TUNE.pitchEffect, 3600)
    /\ Len(game.enemies) > 0

\* the projection of every depth of zs has a divisor of at least 40 + fov and
\* a scale strictly between 0 and 1 that does not grow with depth
BoundedScale(c, zs) ==
    \A z1 \in zs :
        /\ project(c, z1).zz >= 40 * PosScale
        /\ project(c, z1).zz + c.fov * PosScale >= (40 + c.fov) * PosScale
        /\ (40 + c.fov) * PosScale > 0
        /\ c.fov * PosScale > 0
        /\ c.fov * PosScale < project(c, z1).zz + c.fov * PosScale
        /\ project(c, z1).s > 0
        /\ project(c, z1).s < SScale
        /\ project(c, z1).s >= project(c, z1 + 1).s
        /\ \A z2 \in zs : z1 <= z2 => project(c, z1).s >= project(c, z2).s

\* C37: cam.project floors the depth at 40 before dividing, so for every
\* input z, 0 and negative values included, the divisor is at least
\* 40 + fov > 0 and the scale fov / (max(40, z) + fov) lies strictly between
\* 0 and 1 and is non-increasing in z.
C37_ProjectScaleBounded == BoundedScale(cam, DepthSamples(game) \cup {0, -1, 40 * PosScale})

\* render projects an entity that is nearer than the floor depth, one at a
\* negative depth, and one far ahead
C37_Witness ==
    /\ ev.kind = "frame"
    /\ \E z \in DepthSamples(game) \ {k * 250 * PosScale : k \in -2..14} :
          z < 0 /\ project(cam, z).zz = 40 * PosScale
    /\ \E i \in 1..Len(game.enemies) :
          /\ game.enemies[i].z > 40 * PosScale
          /\ project(cam, game.enemies[i].z).s < project(cam, 0).s

====
